---------------------------- MODULE Spec2Model ----------------------------
(***************************************************************************)
(* Model of apps/web/ui/analytics/events/events-tabs.tsx: the EventsTabs   *)
(* component (tab selection kept in the URL query, the sort reset, the     *)
(* timeseries request) and the Chart / ChartInner sparkline pipeline.      *)
(***************************************************************************)
EXTENDS Integers, Sequences, FiniteSets, TLC

VARIABLES
    searchParams,     \* the URL query: key -> value, NULL when the key is absent
    demo,             \* AnalyticsContext.demo
    betaTester,       \* useWorkspace().betaTester
    requiresUpgrade,  \* AnalyticsContext.requiresUpgrade
    isMobile,         \* useMediaQuery().isMobile
    lastDeps,         \* dependency array of the last run of the useEffect, <<>> before the first
    swrKey,           \* the key (request) given to useSWR by the last render
    fetchState,       \* useSWR: loading | retrying | revalidating | success | error
    data,             \* useSWR's data: <<>> (undefined) or <<rows>>, rows a sequence of records
    width,            \* ParentSize: the measured width of a chart's container
    height,           \* ParentSize: the measured height of a chart's container
    charts,           \* per event: <<>> (no chart mounted) or <<the mounted ChartInner>>
    lastOp,           \* history: the operation that produced this state
    prevSort,         \* history: the sort parameter before that operation
    effectRuns,       \* history: runs of the useEffect since the last other operation
    effectWrites      \* history: of these, the runs that changed searchParams

vars == <<searchParams, demo, betaTester, requiresUpgrade, isMobile, lastDeps,
          swrKey, fetchState, data, width, height, charts,
          lastOp, prevSort, effectRuns, effectWrites>>

NULL == "null"
undefined == "undefined"

Events == {"clicks", "leads", "sales"}
SortFields == {"date", "amount", "timestamp"}
Intervals == {"7d"}
ParamKeys == {"tab", "sort", "interval"}

\* JavaScript truthiness of a value read from the query (null or a string).
Truthy(v) == v # NULL /\ v # ""

---------------------------------------------------------------------------
\* The query-state collaborator.

\* queryParams({ set, del }): set overwrites keys, del removes one key.
queryParams(sp, set, del) ==
    [k \in ParamKeys |->
        IF k = del THEN NULL
        ELSE IF k \in DOMAIN set THEN set[k]
        ELSE sp[k]]

\* The query string the analytics context hands over: the parameters present.
queryString(sp) ==
    LET present == {k \in ParamKeys : sp[k] # NULL}
    IN  [k \in present |-> sp[k]]

\* editQueryString(queryString, data): the given keys overwrite.
editQueryString(qs, set) ==
    [k \in (DOMAIN qs) \cup (DOMAIN set) |->
        IF k \in DOMAIN set THEN set[k] ELSE qs[k]]

---------------------------------------------------------------------------
\* Chart and ChartInner (the sparkline of one event).

paddingTop == 8
paddingRight == 2
paddingBottom == 2
paddingLeft == 2

Max(S) == CHOOSE x \in S : \A y \in S : y <= x
Min(S) == CHOOSE x \in S : \A y \in S : x <= y

\* d?.[event] ?? 0 : the count of a record, 0 when the record has no such key.
ValueOf(d, event) == IF event \in DOMAIN d THEN d[event] ELSE 0

\* new Date(d.start)
NewDate(start) == [time |-> start]
getTime(date) == date.time

\* Mutant of noData: `some` in place of `every`.
noDataSome(rows, event) == \E i \in 1..Len(rows) : ValueOf(rows[i], event) = 0

\* Chart: const noData = props.data.every((d) => (d?.[props.event] ?? 0) === 0)
noData(rows, event) == \A i \in 1..Len(rows) : ValueOf(rows[i], event) = 0

\* ChartInner: chartData = data.map(d => ({ date: new Date(d.start), value: d[event] ?? 0 }))
chartData(rows, event) ==
    [i \in 1..Len(rows) |->
        [date |-> NewDate(rows[i]["start"]), value |-> ValueOf(rows[i], event)]]

\* Mutant of zeroedData: the value is carried over instead of being set to 0.
zeroedDataKeepsValue(cd) ==
    [i \in 1..Len(cd) |-> [date |-> cd[i].date, value |-> cd[i].value]]

\* ChartInner: zeroedData = chartData.map(({ date }) => ({ date, value: 0 }))
zeroedData(cd) == [i \in 1..Len(cd) |-> [date |-> cd[i].date, value |-> 0]]

\* Domain values are kept in tenths, the finest step the rounding below produces
\* for a domain at least as wide as [-2, 0].
ToTenths(x) == x * 10
Ceil(a, b) == -((-a) \div b)

RECURSIVE Log10Floor(_)
Log10Floor(n) == IF n < 10 THEN 0 ELSE 1 + Log10Floor(n \div 10)

RECURSIVE Pow10(_)
Pow10(m) == IF m <= 0 THEN 1 ELSE 10 * Pow10(m - 1)

\* d3 tickIncrement(start, stop, 10), in tenths: step = (stop - start) / 10 is
\* rounded to 1, 2, 5 or 10 times a power of ten at the thresholds sqrt(2),
\* sqrt(10), sqrt(50) of step / 10^floor(log10 step).
tickIncrement(start, stop) ==
    LET span == stop - start
        m == Log10Floor(span)
        sq == span * span
        unit == Pow10(m) * Pow10(m)
        factor == IF sq >= 50 * unit THEN 10
                  ELSE IF sq >= 10 * unit THEN 5
                  ELSE IF sq >= 2 * unit THEN 2
                  ELSE 1
    IN  factor * Pow10(m - 1)

\* d3 scale.nice(): widen the domain to multiples of the tick step until the step
\* no longer changes (at most 10 rounds; the domain is left as given otherwise).
RECURSIVE niceLoop(_, _, _, _, _)
niceLoop(domain, start, stop, prestep, maxIter) ==
    IF maxIter = 0 THEN domain
    ELSE LET step == tickIncrement(start, stop)
         IN  IF step = prestep THEN <<start, stop>>
             ELSE niceLoop(domain, (start \div step) * step, Ceil(stop, step) * step,
                           step, maxIter - 1)

nice(domain) == niceLoop(domain, domain[1], domain[2], 0, 10)

\* Mutant of yScale: the range is not inverted.
yScaleRangeNotInverted(cd, h) ==
    LET values == {cd[i].value : i \in 1..Len(cd)}
        maxY == CHOOSE x \in values : \A v \in values : v <= x
    IN  [domain |-> <<-20, 10 * maxY>>,
         range |-> <<0, h - paddingTop - paddingBottom>>]

\* yScale: scaleLinear({ domain: [-2, maxY], range: [height - top - bottom, 0],
\*                        nice: true, clamp: true })
yScale(cd, h) ==
    LET values == {cd[i].value : i \in 1..Len(cd)}
        maxY == Max(values)
    IN  [domain |-> nice(<<ToTenths(-2), ToTenths(maxY)>>),
         range |-> <<h - paddingTop - paddingBottom, 0>>]

\* xScale: scaleUtc({ domain: [minDate, maxDate], range: [0, width - left - right * 2] })
xScale(cd, w) ==
    LET dateTimes == {getTime(cd[i].date) : i \in 1..Len(cd)}
    IN  [domain |-> <<NewDate(Min(dateTimes)), NewDate(Max(dateTimes))>>,
         range |-> <<0, w - paddingLeft - paddingRight * 2>>]

\* A clamped linear scale applied to a value: the exact quotient num / den, den > 0.
clamp(x, lo, hi) == IF x < lo THEN lo ELSE IF x > hi THEN hi ELSE x

ScaleApply(scale, value) ==
    LET d0 == scale.domain[1]
        d1 == scale.domain[2]
        r0 == scale.range[1]
        r1 == scale.range[2]
        x == clamp(ToTenths(value), d0, d1)
    IN  [num |-> r0 * (d1 - d0) + (x - d0) * (r1 - r0), den |-> d1 - d0]

\* The rendered element: <svg key={chartData.length}> with its scales and series.
ChartInner(rows, event, w, h) ==
    LET cd == chartData(rows, event)
    IN  [key |-> Len(cd),
         chartData |-> cd,
         zeroedData |-> zeroedData(cd),
         yScale |-> yScale(cd, h),
         xScale |-> xScale(cd, w)]

\* Chart: width > 0 && height > 0 && !noData && <ChartInner ... />
Chart(rows, event, w, h) ==
    IF w > 0 /\ h > 0 /\ ~noData(rows, event)
    THEN <<ChartInner(rows, event, w, h)>>
    ELSE <<>>

\* path(series): the points the curve is drawn through, x = date, y = yScale(value) ?? 0.
path(el, series) ==
    [i \in 1..Len(series) |->
        [x |-> series[i].date, y |-> ScaleApply(el.yScale, series[i].value)]]

\* motion.path: initial={{ d: path(zeroedData), opacity: 0 }}
initial(el) == [d |-> path(el, el.zeroedData), opacity |-> 0]

\* motion.path: animate={{ d: path(chartData), opacity: 1 }}
animate(el) == [d |-> path(el, el.chartData), opacity |-> 1]

\* React keeps the mounted <svg> while its key is unchanged: `initial` applies on
\* mount only, and a changed `animate` target is reached from the shape on screen.
Reconcile(prev, el) ==
    IF el = <<>> THEN <<>>
    ELSE IF prev = <<>> \/ prev[1].el.key # el[1].key
         THEN <<[el |-> el[1], from |-> initial(el[1])]>>
    ELSE IF animate(prev[1].el) # animate(el[1])
         THEN <<[el |-> el[1], from |-> animate(prev[1].el)]>>
    ELSE <<[el |-> el[1], from |-> prev[1].from]>>

---------------------------------------------------------------------------
\* EventsTabs.

\* const tab = searchParams.get("tab") || "clicks"
tab(sp) == IF Truthy(sp["tab"]) THEN sp["tab"] ELSE "clicks"

\* The buttons rendered: ["clicks", ...(demo || betaTester ? ["leads", "sales"] : [])]
VisibleTabs == IF demo \/ betaTester THEN {"clicks", "leads", "sales"} ELSE {"clicks"}

localTimezone == "UTC"

\* event: demo || betaTester ? "composite" : "clicks"
RequestEvent == IF demo \/ betaTester THEN "composite" ELSE "clicks"

\* Mutant of SwrKey: the event requested is the active tab.
SwrKeyEventOfTab(sp) ==
    [k \in {l \in ParamKeys : sp[l] # NULL} \cup {"groupBy", "event", "timezone"} |->
        IF k = "groupBy" THEN "timeseries"
        ELSE IF k = "event" THEN tab(sp)
        ELSE IF k = "timezone" THEN localTimezone
        ELSE sp[k]]

\* The key of the useSWR call (the base path is a constant prefix).
SwrKey(sp) ==
    editQueryString(queryString(sp),
                    [groupBy |-> "timeseries",
                     event |-> RequestEvent,
                     timezone |-> localTimezone])

\* Mutant of shouldRetryOnError: the option is left at its default.
shouldRetryAlways == TRUE

\* shouldRetryOnError: !requiresUpgrade
shouldRetryOnError == ~requiresUpgrade

\* const sortOptions = event === "sales" ? ["timestamp", "amount"] : ["date"]
sortOptions(event) == IF event = "sales" THEN {"timestamp", "amount"} ELSE {"date"}

\* The dependency array of the useEffect: [tab, searchParams.get("sort")]
Deps(sp) == <<tab(sp), sp["sort"]>>

\* React runs the effect after a render whose dependencies differ from those of
\* its last run (and after the first render), before any later event is handled.
EffectPending == lastDeps # Deps(searchParams)

\* data?.length && !isMobile && <Chart data={data} event={event} />, inside the
\* button of each visible tab.
HasRows(d) == d # <<>> /\ Len(d[1]) # 0

ChartOf(d, event) ==
    IF event \in VisibleTabs /\ HasRows(d) /\ ~isMobile
    THEN Chart(d[1], event, width, height)
    ELSE <<>>

\* One render of EventsTabs with data d: the chart mounted under each event.
RenderCharts(d) == [event \in Events |-> Reconcile(charts[event], ChartOf(d, event))]

\* useSWR after the query changed: a new key starts a fetch with no data yet.
SwrAfter(sp) ==
    /\ swrKey' = SwrKey(sp)
    /\ IF swrKey' = swrKey
       THEN UNCHANGED <<fetchState, data, charts>>
       ELSE fetchState' = "loading" /\ data' = <<>> /\ charts' = RenderCharts(<<>>)

History(op) ==
    /\ lastOp' = op
    /\ prevSort' = searchParams["sort"]
    /\ effectRuns' = 0
    /\ effectWrites' = 0

Static == UNCHANGED <<demo, betaTester, requiresUpgrade, isMobile, width, height>>

\* Mutant of ClickParams: the tab is set and the sort never reset.
ClickParamsKeepsSort(sp, event) ==
    [k \in ParamKeys |-> IF k = "tab" THEN event ELSE sp[k]]

\* onEventTabClick(event), the onClick of the button of a visible tab.
ClickParams(sp, event) ==
    LET currentSort == sp["sort"]
    IN  queryParams(sp, [tab |-> event],
                    IF Truthy(currentSort) /\ currentSort \notin sortOptions(event)
                    THEN "sort" ELSE undefined)

onEventTabClick(event) ==
    /\ ~EffectPending
    /\ event \in VisibleTabs
    /\ searchParams' = ClickParams(searchParams, event)
    /\ SwrAfter(searchParams')
    /\ History("click")
    /\ UNCHANGED lastDeps
    /\ Static

\* Mutant of EffectParams: the sort is compared with "date", the valid non-sales field.
EffectParamsKeepsDate(sp) ==
    IF tab(sp) # "sales" /\ sp["sort"] # "date"
    THEN [k \in ParamKeys |-> IF k = "sort" THEN NULL ELSE sp[k]]
    ELSE sp

\* Mutant of EffectParams: the key deleted is "tab".
EffectParamsDeletesTab(sp) ==
    IF tab(sp) # "sales" /\ sp["sort"] # "timestamp"
    THEN [k \in ParamKeys |-> IF k = "tab" THEN NULL ELSE sp[k]]
    ELSE sp

\* The useEffect: if (tab !== "sales" && sortBy !== "timestamp") queryParams({ del: "sort" })
EffectParams(sp) ==
    LET sortBy == sp["sort"]
    IN  IF tab(sp) # "sales" /\ sortBy # "timestamp"
        THEN queryParams(sp, <<>>, "sort")
        ELSE sp

useEffect ==
    /\ EffectPending
    /\ lastDeps' = Deps(searchParams)
    /\ searchParams' = EffectParams(searchParams)
    /\ SwrAfter(searchParams')
    /\ lastOp' = "effect"
    /\ prevSort' = searchParams["sort"]
    /\ effectRuns' = effectRuns + 1
    /\ effectWrites' = effectWrites + (IF searchParams' # searchParams THEN 1 ELSE 0)
    /\ Static

\* The sort parameter written elsewhere on the page (the events table).
SortChange(sort) ==
    /\ ~EffectPending
    /\ sort # searchParams["sort"]
    /\ searchParams' = (IF sort = NULL
                        THEN queryParams(searchParams, <<>>, "sort")
                        ELSE queryParams(searchParams, [sort |-> sort], undefined))
    /\ SwrAfter(searchParams')
    /\ History("sort")
    /\ UNCHANGED lastDeps
    /\ Static

\* An analytics filter written elsewhere on the page.
FilterChange(interval) ==
    /\ ~EffectPending
    /\ interval # searchParams["interval"]
    /\ searchParams' = (IF interval = NULL
                        THEN queryParams(searchParams, <<>>, "interval")
                        ELSE queryParams(searchParams, [interval |-> interval], undefined))
    /\ SwrAfter(searchParams')
    /\ History("filter")
    /\ UNCHANGED lastDeps
    /\ Static

\* Responses the timeseries endpoint gives in the behaviours explored.
SampleResponses ==
    { <<>>,
      <<[start |-> 0, clicks |-> 1, leads |-> 0, sales |-> 0]>>,
      <<[start |-> 0, clicks |-> 2, leads |-> 1, sales |-> 0]>>,
      <<[start |-> 0, clicks |-> 1, leads |-> 0, sales |-> 0],
        [start |-> 1, clicks |-> 0, leads |-> 1, sales |-> 0]>> }

InFlight == fetchState \in {"loading", "retrying", "revalidating"}

\* The fetcher resolves: useSWR hands the rows to the component, which renders.
FetchSucceeds(rows) ==
    /\ ~EffectPending
    /\ InFlight
    /\ fetchState' = "success"
    /\ data' = <<rows>>
    /\ charts' = RenderCharts(data')
    /\ History("fetched")
    /\ UNCHANGED <<searchParams, lastDeps, swrKey>>
    /\ Static

\* The fetcher rejects: useSWR keeps the data it has.
FetchFails ==
    /\ ~EffectPending
    /\ InFlight
    /\ fetchState' = "error"
    /\ History("failed")
    /\ UNCHANGED <<searchParams, lastDeps, swrKey, data, charts>>
    /\ Static

\* useSWR's retry of a failed fetch, under { shouldRetryOnError }.
ErrorRetry ==
    /\ ~EffectPending
    /\ fetchState = "error"
    /\ shouldRetryOnError
    /\ fetchState' = "retrying"
    /\ History("retry")
    /\ UNCHANGED <<searchParams, lastDeps, swrKey, data, charts>>
    /\ Static

\* useSWR fetches the key of loaded data again (stale-while-revalidate).
Revalidate ==
    /\ ~EffectPending
    /\ fetchState = "success"
    /\ fetchState' = "revalidating"
    /\ History("revalidate")
    /\ UNCHANGED <<searchParams, lastDeps, swrKey, data, charts>>
    /\ Static

NoCharts == [event \in Events |-> <<>>]

Init ==
    /\ searchParams \in [ParamKeys -> {NULL} \cup Events \cup SortFields \cup Intervals]
    /\ searchParams["tab"] \in {NULL} \cup Events
    /\ searchParams["sort"] \in {NULL} \cup SortFields
    /\ searchParams["interval"] \in {NULL} \cup Intervals
    /\ demo \in BOOLEAN
    /\ betaTester \in BOOLEAN
    /\ requiresUpgrade \in BOOLEAN
    /\ isMobile \in BOOLEAN
    /\ width = 140
    /\ height = 60
    /\ lastDeps = <<>>
    /\ swrKey = SwrKey(searchParams)
    /\ fetchState = "loading"
    /\ data = <<>>
    /\ charts = NoCharts
    /\ lastOp = "mount"
    /\ prevSort = searchParams["sort"]
    /\ effectRuns = 0
    /\ effectWrites = 0

Next ==
    \/ \E event \in Events : onEventTabClick(event)
    \/ useEffect
    \/ \E sort \in {NULL} \cup SortFields : SortChange(sort)
    \/ \E interval \in {NULL} \cup Intervals : FilterChange(interval)
    \/ \E rows \in SampleResponses : FetchSucceeds(rows)
    \/ FetchFails
    \/ ErrorRetry
    \/ Revalidate

Spec == Init /\ [][Next]_vars

\* React flushes a pending effect, and useSWR schedules the retry of a failed fetch.
FairSpec == Spec /\ WF_vars(useEffect) /\ WF_vars(ErrorRetry)

---------------------------------------------------------------------------
\* The chart pipeline on its own: one render of EventsTabs for every response
\* within the bounds and every measured size.

MaxLen == 3
MaxValue == 3

\* Counts spread over several magnitudes, so that the rounding of the scale acts.
Values == {v * v * v : v \in 0..MaxValue}

\* A raw record of the bucket starting at t: the count of one event, or no count
\* at all (a missing key). A chart reads d.start and d[event] only, so the counts
\* of the other events are left out of the records drawn here.
RecordsAt(t, event) ==
    {[start |-> t]} \cup {[k \in {"start", event} |-> IF k = "start" THEN t ELSE v] :
                            v \in Values}

\* The endpoint returns one record per time bucket, ascending: bucket i starts at i - 1.
RECURSIVE DatasetsOfLen(_, _)
DatasetsOfLen(n, event) ==
    IF n = 0 THEN {<<>>}
    ELSE {Append(rows, r) : rows \in DatasetsOfLen(n - 1, event),
                            r \in RecordsAt(n - 1, event)}

Datasets == UNION {DatasetsOfLen(n, event) : n \in 0..MaxLen, event \in Events}

Widths == {0, 140}
Heights == {0, 8, 60}

InitChart ==
    /\ searchParams = [k \in ParamKeys |-> NULL]
    /\ demo = TRUE
    /\ betaTester = FALSE
    /\ requiresUpgrade = FALSE
    /\ isMobile \in BOOLEAN
    /\ width \in Widths
    /\ height \in Heights
    /\ lastDeps = Deps(searchParams)
    /\ swrKey = SwrKey(searchParams)
    /\ fetchState = "success"
    /\ data \in {<<>>} \cup {<<rows>> : rows \in Datasets}
    /\ charts = NoCharts
    /\ lastOp = "fetched"
    /\ prevSort = NULL
    /\ effectRuns = 0
    /\ effectWrites = 0

\* The render that follows the arrival of the response.
RenderStep ==
    /\ lastOp = "fetched"
    /\ charts' = RenderCharts(data)
    /\ lastOp' = "render"
    /\ UNCHANGED <<searchParams, lastDeps, swrKey, fetchState, data, prevSort,
                   effectRuns, effectWrites>>
    /\ Static

NextChart == RenderStep

ChartSpec == InitChart /\ [][NextChart]_vars

---------------------------------------------------------------------------
\* Properties.

sortField == searchParams["sort"]

\* The sort fields the specification allows under a category.
ValidSortFields(category) ==
    IF category = "sales" THEN {"timestamp", "amount"} ELSE {"date"}

\* C1: a tab click on `event` sets the persisted tab to `event` and clears the sort
\* exactly when the sort persisted at the call is set and is not a valid sort field
\* of `event`; otherwise the sort (and every other parameter) is left as it was.
C1_SelectTabResetsInvalidSort ==
    [][\A event \in Events :
         onEventTabClick(event) =>
            /\ searchParams'["tab"] = event
            /\ searchParams'["sort"] =
                 (IF sortField # NULL /\ sortField \notin ValidSortFields(event)
                  THEN NULL ELSE sortField)
            /\ searchParams'["interval"] = searchParams["interval"]]_vars

\* C1 witness: a click on clicks arrived with sort = amount and cleared it.
C1_Witness ==
    /\ lastOp = "click"
    /\ prevSort = "amount"
    /\ searchParams["tab"] = "clicks"
    /\ sortField = NULL

NonSalesCustomSort ==
    tab(searchParams) # "sales" /\ sortField \notin {NULL, "timestamp"}

\* C2: whenever the tab is not sales and the sort is set to something other than
\* "timestamp", the next step is the passive check and it clears the sort, and that
\* step is eventually taken: such a sort does not persist on a non-sales tab.
C2_PassiveCheckClearsSort ==
    /\ [][NonSalesCustomSort => (lastOp' = "effect" /\ sortField' = NULL)]_vars
    /\ (NonSalesCustomSort ~> (sortField = NULL))

\* C2 witness: the passive check ran on a non-sales tab with sort = date and cleared it.
C2_Witness ==
    /\ lastOp = "effect"
    /\ prevSort = "date"
    /\ tab(searchParams) = "leads"
    /\ sortField = NULL

\* C3: the active tab is the persisted tab when that is set and visible, and clicks
\* otherwise; so the active tab is always one of the visible tabs.
C3_ActiveTabIsVisible ==
    /\ tab(searchParams) =
         (IF searchParams["tab"] \in VisibleTabs THEN searchParams["tab"] ELSE "clicks")
    /\ tab(searchParams) \in VisibleTabs

\* C4: the request's event is "clicks" without entitlement and "composite" with demo
\* or betaTester, its groupBy is "timeseries", whatever the tab; a tab click and the
\* passive check change neither.
C4_RequestEventFollowsEntitlement ==
    /\ [](/\ swrKey["event"] = (IF demo \/ betaTester THEN "composite" ELSE "clicks")
          /\ swrKey["groupBy"] = "timeseries")
    /\ [][lastOp' \in {"click", "effect"} =>
            /\ swrKey'["event"] = swrKey["event"]
            /\ swrKey'["groupBy"] = swrKey["groupBy"]]_vars

\* C4 witness: after a click on sales the request still asks for the composite.
C4_Witness ==
    /\ lastOp = "click"
    /\ searchParams["tab"] = "sales"
    /\ swrKey["event"] = "composite"

\* Every point of the series of `event` is 0, a missing count being 0.
AllZero(rows, event) ==
    \A i \in 1..Len(rows) : event \notin DOMAIN rows[i] \/ rows[i][event] = 0

\* C5: after a render on a surface that shows charts (not mobile), no chart is drawn
\* for an event exactly when the width is not positive, or the height is not
\* positive, or the response is absent or empty, or every value of the event is 0
\* (missing counts as 0).
C5_NoChartExactlyWhenNothingToShow ==
    (lastOp = "render" /\ ~isMobile) =>
        \A event \in Events :
            (charts[event] = <<>>) <=>
                \/ width <= 0
                \/ height <= 0
                \/ data = <<>>
                \/ Len(data[1]) = 0
                \/ AllZero(data[1], event)

\* C5 witness: a chart is drawn from a series in which a record misses the count.
C5_Witness ==
    /\ lastOp = "render"
    /\ ~isMobile
    /\ \E event \in Events :
          /\ charts[event] # <<>>
          /\ \E i \in 1..Len(data[1]) : event \notin DOMAIN data[1][i]

\* C6: whenever the dataset changes, every chart drawn restarts its transition from
\* the zeroed baseline at opacity 0.
C6_TransitionRestartsOnEveryDataset ==
    [][\A event \in Events :
         (data' # data /\ charts'[event] # <<>>) =>
            charts'[event][1].from = initial(charts'[event][1].el)]_vars

C8_NormalizedAndZeroedSeries ==
    (lastOp = "render" /\ data # <<>>) =>
        \A event \in Events :
            LET rows == data[1]
                series == chartData(rows, event)
                zeroed == zeroedData(series)
            IN  /\ Len(series) = Len(rows)
                /\ Len(zeroed) = Len(series)
                /\ \A i \in 1..Len(rows) :
                      /\ getTime(series[i].date) = rows[i]["start"]
                      /\ series[i].value =
                           (IF event \in DOMAIN rows[i] THEN rows[i][event] ELSE 0)
                      /\ zeroed[i].date = series[i].date
                      /\ zeroed[i].value = 0
                /\ charts[event] # <<>> =>
                      /\ charts[event][1].el.chartData = series
                      /\ charts[event][1].el.zeroedData = zeroed

\* C8 witness: a chart drawn from two or more records, one of them missing the count.
C8_Witness ==
    /\ lastOp = "render"
    /\ \E event \in Events :
          /\ charts[event] # <<>>
          /\ Len(charts[event][1].el.zeroedData) >= 2
          /\ \E i \in 1..Len(data[1]) : event \notin DOMAIN data[1][i]

\* Values the y scale is probed at: below, inside and above every domain drawn.
ProbeValues == (-3)..(Max(Values) + 2)

\* The height left for the plot inside the padding.
PlotHeight == height - paddingTop - paddingBottom

\* C9: for every chart drawn with a positive plot height, the map from value to y
\* is non-increasing (from each probed value to the next), stays within
\* [0, plotHeight], and sends the largest value of the series to the smallest y
\* among its points. All y of one scale share the denominator den > 0.
C9_YScaleNonIncreasingAndClamped ==
    lastOp = "render" =>
        \A event \in Events :
            (charts[event] # <<>> /\ PlotHeight > 0) =>
                LET el == charts[event][1].el
                    plotHeight == PlotHeight
                    y(v) == ScaleApply(el.yScale, v)
                    points == 1..Len(el.chartData)
                IN  /\ \A v \in ProbeValues : y(v).den > 0
                    /\ \A v \in ProbeValues :
                          (v + 1) \in ProbeValues => y(v + 1).num <= y(v).num
                    /\ \A v \in ProbeValues :
                          0 <= y(v).num /\ y(v).num <= plotHeight * y(v).den
                    /\ \A i, j \in points :
                          (\A k \in points : el.chartData[k].value <= el.chartData[i].value)
                             => y(el.chartData[i].value).num <= y(el.chartData[j].value).num

\* C9 witness: a chart with a positive plot height drawn from distinct values.
C9_Witness ==
    /\ lastOp = "render"
    /\ \E event \in Events :
          /\ charts[event] # <<>>
          /\ PlotHeight > 0
          /\ \E i, j \in 1..Len(charts[event][1].el.chartData) :
                charts[event][1].el.chartData[i].value
                    < charts[event][1].el.chartData[j].value

\* C10: between two operations of the user or the page the passive check changes
\* the persisted state at most once and runs at most twice; it changes no parameter
\* other than sort; a run that changes nothing leaves no run pending; with no run
\* pending, running the check again would change nothing; and a pending run always
\* leads to a state with none pending.
C10_PassiveCheckTerminates ==
    /\ [](effectWrites <= 1 /\ effectRuns <= 2)
    /\ [][lastOp' = "effect" =>
            \A k \in ParamKeys \ {"sort"} : searchParams'[k] = searchParams[k]]_vars
    /\ [][(lastOp' = "effect" /\ searchParams' = searchParams) => ~EffectPending']_vars
    /\ [](~EffectPending => EffectParams(searchParams) = searchParams)
    /\ (EffectPending ~> ~EffectPending)

\* C10 witness: the check ran twice, wrote once, and nothing is pending.
C10_Witness ==
    /\ effectRuns = 2
    /\ effectWrites = 1
    /\ ~EffectPending

=============================================================================
